---- MODULE Spec2Model ----
(***************************************************************************)
(* OPTIC-SHIELD dashboard: the detection ingestion routes                  *)
(*   POST /api/devices/detections        (single detection)                *)
(*   POST /api/devices/detections/batch  (batch of detections)             *)
(*   GET  /api/detections                (detection list)                  *)
(*   GET  /api/devices/detections        (detection event log)             *)
(*   GET  /api/stats                     (dashboard statistics)            *)
(* the dashboard page that polls them and listens to the device stream,     *)
(* and the module-level stores they share.  The hub behind                  *)
(* broadcastDeviceUpdate (lib/auth) is modelled after its specification:   *)
(* one stream of device updates per subscribed dashboard session.          *)
(*                                                                         *)
(* A route handler is an async function: it runs synchronously up to its   *)
(* one `await request.json()`, and from the moment the body resolves it    *)
(* runs to completion without yielding.  Several requests may therefore be *)
(* waiting for their body at the same time, but at most one handler is     *)
(* ever inside the part that touches the stores.                           *)
(*                                                                         *)
(* Strings that the code inspects character by character (class names)     *)
(* are sequences of one-character strings; identifiers are strings; times  *)
(* are integer milliseconds, an ISO date string being represented by the   *)
(* millisecond instant it denotes.                                         *)
(***************************************************************************)
EXTENDS Integers, Sequences, FiniteSets, TLC

VARIABLES
    now,                \* Date.now(), in milliseconds
    deviceStore,        \* Map device id -> device record
    detectionStore,     \* Map with the one key 'all' -> array of detections
    detectionEventLog,  \* the audit log array of the single-detection route
    published,          \* the devices handed to broadcastDeviceUpdate, in order
    streams,            \* per dashboard session: its device-update stream
    stats,              \* the body of the latest response of GET /api/stats
    dash,               \* the dashboard page in a browser: its React state
    pc,                 \* per handler: where it is in its route function
    req,                \* per handler: the request it is serving
    local,              \* per handler: the locals of the route function
    resp,               \* per handler: the response it returned
    pre,                \* the stores as they were when the latest handler began to act on them
    last,               \* the handler that answered most recently (0: none yet)
    met,                \* per handler: the handlers that were waiting for their body when its own resolved
    nreq                \* number of requests received so far

vars == <<now, deviceStore, detectionStore, detectionEventLog, published, streams, stats, dash,
          pc, req, local, resp, pre, last, met, nreq>>

stores == <<deviceStore, detectionStore, detectionEventLog, published>>

-----------------------------------------------------------------------------
(* Bounds of the model *)

MaxRequests == 2
MaxTicks == 1
MaxBatch == 2
MaxLimit == 2
MaxStored == 4
MaxPolls == 3

(* Program constants *)

MaxDetections == 1000
MaxLogEvents == 1000
DefaultDetectionLimit == 50
DefaultLogLimit == 100

-----------------------------------------------------------------------------
(* JSON values of a request body *)

JsString(cs) == [type |-> "string", chars |-> cs, num |-> 0]
JsNumber(n) == [type |-> "number", chars |-> <<>>, num |-> n]
JsUndefined == [type |-> "undefined", chars |-> <<>>, num |-> 0]

\* !v of JavaScript for a JSON string, number or absent field
Falsy(v) ==
    \/ v.type = "undefined"
    \/ v.type = "string" /\ v.chars = <<>>
    \/ v.type = "number" /\ v.num = 0

\* an absent or empty string field, and an absent or zero number field: both falsy
NoString == ""
NoNumber == 0

-----------------------------------------------------------------------------
(* String.prototype.toLowerCase on ASCII text *)

UpperCase == <<"A","B","C","D","E","F","G","H","I","J","K","L","M",
               "N","O","P","Q","R","S","T","U","V","W","X","Y","Z">>
LowerCase == <<"a","b","c","d","e","f","g","h","i","j","k","l","m",
               "n","o","p","q","r","s","t","u","v","w","x","y","z">>

toLowerChar(c) ==
    IF \E i \in 1..26 : UpperCase[i] = c
    THEN LowerCase[CHOOSE i \in 1..26 : UpperCase[i] = c]
    ELSE c

toLowerCase(cs) == [i \in 1..Len(cs) |-> toLowerChar(cs[i])]

WILD_CAT_SPECIES == <<
    <<"t","i","g","e","r">>,
    <<"l","e","o","p","a","r","d">>,
    <<"j","a","g","u","a","r">>,
    <<"l","i","o","n">>,
    <<"c","h","e","e","t","a","h">>,
    <<"s","n","o","w"," ","l","e","o","p","a","r","d">>,
    <<"c","l","o","u","d","e","d"," ","l","e","o","p","a","r","d">>,
    <<"p","u","m","a">>,
    <<"l","y","n","x">> >>

\* Array.prototype.includes
includes(arr, x) == \E i \in 1..Len(arr) : arr[i] = x

\* a filter that lets every named class through
isWildCatUnfiltered(className) == className # <<>>

\* isWildCat on a string (its characters)
isWildCat(className) == includes(WILD_CAT_SPECIES, toLowerCase(className))

\* className.toLowerCase() raises a TypeError unless className is a string
isWildCatThrows(v) == v.type # "string"

-----------------------------------------------------------------------------
(* Array operations *)

\* arr.push(x) in the place of arr.unshift(x)
push(arr, x) == Append(arr, x)

\* arr.unshift(x)
unshift(arr, x) == <<x>> \o arr

\* arr.splice(n): drops everything from index n on
splice(arr, n) == IF Len(arr) > n THEN SubSeq(arr, 1, n) ELSE arr

\* arr.filter(d => d.deviceId === deviceId) and arr.filter(d => isWildCat(d.className))
filterDevice(arr, deviceId) == SelectSeq(arr, LAMBDA d : d.deviceId = deviceId)
filterWildCat(arr) == SelectSeq(arr, LAMBDA d : isWildCat(d.className))

\* arr.slice(0, end): a negative end counts from the end of the array
slice(arr, end) ==
    LET stop == IF end < 0 THEN (IF Len(arr) + end < 0 THEN 0 ELSE Len(arr) + end)
                ELSE (IF end > Len(arr) THEN Len(arr) ELSE end)
    IN  SubSeq(arr, 1, stop)

-----------------------------------------------------------------------------
(* Times *)

HourMs == 60 * 60 * 1000
StartTime == 8 * 24 * HourMs
TickMs == 60 * 1000

\* epoch seconds of the events the devices report
EventSeconds == (StartTime \div 1000) - 90

\* new Date(timestamp * 1000).toISOString(): the instant in milliseconds;
\* it raises a RangeError when timestamp is not a number (an Invalid Date)
toISOStringThrows(timestamp) == timestamp.type # "number"
toISOString(timestamp) == timestamp.num * 1000

-----------------------------------------------------------------------------
(* Requests *)

Tiger == JsString(<<"T","i","g","e","r">>)
LYNX == JsString(<<"L","Y","N","X">>)
dog == JsString(<<"d","o","g">>)

DeviceIds == {"cam-1", "cam-2"}          \* cam-2 has no device record
Registered == {"cam-1", "cam-3"}            \* cam-3 has a record without a name

NoItems == [isArray |-> FALSE, items |-> <<>>]

\* the optional fields a caller may or may not supply
Plain == [event_id |-> NoString, detection_id |-> NoNumber,
          timestamp |-> JsNumber(EventSeconds), confidence |-> 92]
Tagged == [event_id |-> "evt-1", detection_id |-> 7,
           timestamp |-> JsNumber(EventSeconds + 30), confidence |-> 99]
Undated == [event_id |-> NoString, detection_id |-> NoNumber,
            timestamp |-> JsUndefined, confidence |-> 92]

Single(auth, json, device_id, class_name, rest) ==
    [kind |-> "single", auth |-> auth, json |-> json, device_id |-> device_id,
     class_name |-> class_name, event_id |-> rest.event_id,
     detection_id |-> rest.detection_id, timestamp |-> rest.timestamp,
     confidence |-> rest.confidence, detections |-> NoItems]

\* the single-detection requests the devices send
SingleRequests ==
    { Single(TRUE, TRUE, d, c, Plain) : d \in DeviceIds, c \in {Tiger, dog} }
    \cup { Single(TRUE, TRUE, "cam-1", LYNX, Tagged),
           Single(TRUE, TRUE, NoString, Tiger, Plain),
           Single(TRUE, TRUE, "cam-1", JsUndefined, Plain),
           Single(TRUE, TRUE, "cam-1", JsNumber(5), Plain),
           Single(TRUE, TRUE, "cam-1", Tiger, Undated),
           Single(TRUE, TRUE, "cam-3", Tiger, Plain),
           Single(FALSE, TRUE, "cam-1", Tiger, Plain),
           Single(FALSE, TRUE, "cam-2", dog, Tagged),
           Single(TRUE, FALSE, NoString, JsUndefined, Undated) }

Item(class_name, rest) ==
    [class_name |-> class_name, detection_id |-> rest.detection_id,
     timestamp |-> rest.timestamp, confidence |-> rest.confidence]

Items == { Item(Tiger, Plain), Item(dog, Plain), Item(JsUndefined, Plain) }

RECURSIVE SeqsUpTo(_, _)
SeqsUpTo(S, n) ==
    IF n = 0 THEN {<<>>}
    ELSE LET shorter == SeqsUpTo(S, n - 1)
         IN  shorter \cup { Append(s, x) : s \in {t \in shorter : Len(t) = n - 1}, x \in S }

Batch(auth, json, device_id, detections) ==
    [kind |-> "batch", auth |-> auth, json |-> json, device_id |-> device_id,
     class_name |-> JsUndefined, event_id |-> NoString, detection_id |-> NoNumber,
     timestamp |-> JsUndefined, confidence |-> 0, detections |-> detections]

\* the batch requests the devices send
BatchRequests ==
    { Batch(TRUE, TRUE, "cam-1", [isArray |-> TRUE, items |-> s]) :
        s \in SeqsUpTo(Items, MaxBatch) }
    \cup { Batch(TRUE, TRUE, "cam-2", [isArray |-> TRUE, items |-> <<Item(Tiger, Plain)>>]),
           Batch(TRUE, TRUE, "cam-1", NoItems),
           Batch(TRUE, TRUE, "cam-1",
                 [isArray |-> TRUE, items |-> <<Item(Tiger, Plain), Item(Tiger, Undated)>>]),
           Batch(TRUE, TRUE, NoString, [isArray |-> TRUE, items |-> <<Item(Tiger, Plain)>>]),
           Batch(FALSE, TRUE, "cam-1", [isArray |-> TRUE, items |-> <<Item(Tiger, Plain)>>]),
           Batch(TRUE, FALSE, NoString, NoItems) }

NoRequest == Batch(FALSE, FALSE, NoString, NoItems)

-----------------------------------------------------------------------------
(* Responses: NextResponse.json(body, {status}) *)

Response(status, success, event_id, detection_id, count) ==
    [status |-> status, success |-> success, event_id |-> event_id,
     detection_id |-> detection_id, count |-> count]

NoResponse == Response(0, FALSE, NoString, NoNumber, 0)
Unauthorized == Response(401, FALSE, NoString, NoNumber, 0)
BadRequest == Response(400, FALSE, NoString, NoNumber, 0)
ServerError == Response(500, FALSE, NoString, NoNumber, 0)

-----------------------------------------------------------------------------
(* Records held by the stores *)

Detection(id, eventId, deviceId, deviceName, timestamp, className, confidence) ==
    [id |-> id, eventId |-> eventId, deviceId |-> deviceId, deviceName |-> deviceName,
     timestamp |-> timestamp, className |-> className, confidence |-> confidence]

NoDetection == Detection(NoNumber, NoString, NoString, NoString, 0, <<>>, 0)

LogEntry(eventId, deviceId, timestamp, action, details) ==
    [eventId |-> eventId, deviceId |-> deviceId, timestamp |-> timestamp,
     action |-> action, details |-> details]

Device(name, lastSeen, status, detectionCount) ==
    [name |-> name, lastSeen |-> lastSeen, status |-> status,
     detectionCount |-> detectionCount]

NoLocals == [deviceName |-> NoString, eventId |-> NoString, detection |-> NoDetection,
             storedDetections |-> <<>>, addedCount |-> 0, rejectedCount |-> 0]

\* what earlier accepted single detections of the unregistered device cam-2 left
\* behind: the k-th of n is at position n - k + 1, the most recent first
HistoryDetections(n) ==
    [i \in 1..n |-> Detection(n - i + 1, "evt-old-" \o ToString(n - i + 1), "cam-2", "cam-2",
                              StartTime - 2 * HourMs, <<"l","i","o","n">>, 90)]

HistoryLog(n) ==
    [i \in 1..n |-> LogEntry("evt-old-" \o ToString(n - i + 1), "cam-2", StartTime - 2 * HourMs,
                             "detection_received",
                             [className |-> <<"l","i","o","n">>, confidence |-> 90])]

\* no GET /api/stats has been answered yet
NoStats == [totalDevices |-> 0, onlineDevices |-> 0, totalDetections24h |-> 0,
            totalDetectionsWeek |-> 0, classDistribution |-> <<>>,
            hourlyDetections |-> <<>>]

\* no browser has opened the dashboard page
NoDashboard == [mounted |-> FALSE]

\* the dashboard sessions that may hold a device-update stream
Sessions == {"tab-1", "tab-2"}

\* a session without a subscription: "open" is a subscription whose connection
\* is up, "dead" one whose connection has closed without the hub knowing yet
NoStream == [state |-> "closed", events |-> <<>>, errors |-> 0]

\* the stores as handler p finds them (p = 0: as the process starts)
Snapshot(p) ==
    [by |-> p, at |-> now, deviceStore |-> deviceStore, detectionStore |-> detectionStore,
     detectionEventLog |-> detectionEventLog, published |-> published, streams |-> streams]

\* the device records when the process starts
InitialDevices ==
    [d \in Registered |->
        IF d = "cam-1" THEN Device("Camera 1", StartTime - 5 * TickMs, "offline", 3)
        ELSE Device("", StartTime - 5 * TickMs, "error", 0)]

\* the state of a process serving with the handlers H that has stored n
\* detections so far (n = 0: a fresh process, its detection Map still empty)
InitFor(H, n) ==
    /\ now = StartTime
    /\ deviceStore = InitialDevices
    /\ detectionStore = [has |-> n > 0, all |-> HistoryDetections(n)]
    /\ detectionEventLog = HistoryLog(n)
    /\ published = <<>>
    /\ streams = [s \in Sessions |-> NoStream]
    /\ stats = NoStats
    /\ dash = NoDashboard
    /\ pc = [p \in H |-> "idle"]
    /\ req = [p \in H |-> NoRequest]
    /\ local = [p \in H |-> NoLocals]
    /\ resp = [p \in H |-> NoResponse]
    /\ pre = Snapshot(0)
    /\ last = 0
    /\ met = [p \in H |-> {}]
    /\ nreq = 0

Init == InitFor({1}, 0)

\* one detection short of the capacity of the stores
InitFull == InitFor({1}, MaxDetections - 1)

-----------------------------------------------------------------------------
(* Scheduling of the handlers *)

\* handlers that yield between their steps
Yielding == TRUE

\* the places of a handler after its body has resolved: it does not yield there
SyncPlaces == {"store", "device", "broadcast", "log", "commit", "batchDevice", "batchRespond"}

InSync(p) == pc[p] \in SyncPlaces
Handlers == DOMAIN pc
NoneInSync == \A p \in Handlers : ~InSync(p)

\* the other handlers that have been entered and are waiting for their body
Waiting(p) == { q \in Handlers \ {p} : pc[q] = "body" }

\* the handler returns its response
Return(p, response) ==
    /\ pc' = [pc EXCEPT ![p] = "done"]
    /\ resp' = [resp EXCEPT ![p] = response]
    /\ last' = p

\* the clock moves on, at any moment
Tick ==
    /\ now < StartTime + MaxTicks * TickMs
    /\ now' = now + TickMs
    /\ UNCHANGED <<stores, streams, stats, dash, pc, req, local, resp, pre, last, met, nreq>>

-----------------------------------------------------------------------------
(* POST /api/devices/detections *)

\* deviceStore.get(device_id) is a device record
hasDevice(device_id) == device_id \in DOMAIN deviceStore

\* device?.name || 'Unknown device'
deviceNameUnknown(device_id) ==
    IF hasDevice(device_id) /\ deviceStore[device_id].name # NoString
    THEN deviceStore[device_id].name
    ELSE "Unknown device"

\* device?.name || device_id
deviceNameOf(device_id) ==
    IF hasDevice(device_id) /\ deviceStore[device_id].name # NoString
    THEN deviceStore[device_id].name
    ELSE device_id

\* an event id that ignores the one the caller sent
eventIdGenerated(event_id, device_id) == "det_" \o device_id \o "_" \o ToString(now)

\* event_id || `det_${device_id}_${Date.now()}`
eventIdOf(event_id, device_id) ==
    IF event_id # NoString THEN event_id
    ELSE "det_" \o device_id \o "_" \o ToString(now)

\* a check of the required fields that forgets class_name
missingDeviceIdOnly(r) == r.device_id = NoString

\* !device_id || !class_name
missingRequiredFields(r) == r.device_id = NoString \/ Falsy(r.class_name)

\* the detection record built from a single payload
singleDetection(r) ==
    Detection(IF r.detection_id # NoNumber THEN r.detection_id ELSE now,
              eventIdOf(r.event_id, r.device_id), r.device_id, deviceNameOf(r.device_id),
              toISOString(r.timestamp), r.class_name.chars, r.confidence)

\* the checks without the species filter
singleRejectionUnfiltered(r) ==
    IF ~r.json THEN ServerError
    ELSE IF r.device_id = NoString \/ Falsy(r.class_name) THEN BadRequest
    ELSE IF isWildCatThrows(r.class_name) THEN ServerError
    ELSE IF toISOStringThrows(r.timestamp) THEN ServerError
    ELSE NoResponse

\* the response of the checks that precede the store, or NoResponse when they pass
singleRejection(r) ==
    IF ~r.json THEN ServerError
    ELSE IF missingRequiredFields(r) THEN BadRequest
    ELSE IF isWildCatThrows(r.class_name) THEN ServerError
    ELSE IF ~isWildCat(r.class_name.chars) THEN BadRequest
    ELSE IF toISOStringThrows(r.timestamp) THEN ServerError
    ELSE NoResponse

\* a handler that does not look at the result of verifyRequest
POSTVerifyUnchecked(p, r) ==
    /\ pc[p] \in {"idle", "done"}
    /\ NoneInSync
    /\ nreq < MaxRequests
    /\ nreq' = nreq + 1
    /\ req' = [req EXCEPT ![p] = r]
    /\ pc' = [pc EXCEPT ![p] = "body"]
    /\ resp' = [resp EXCEPT ![p] = NoResponse]
    /\ UNCHANGED <<pre, last>>
    /\ UNCHANGED <<now, stats, dash, met, streams, stores, local>>

\* the handler is entered: verifyRequest, then it waits for the body
POSTVerify(p, r) ==
    /\ pc[p] \in {"idle", "done"}
    /\ NoneInSync
    /\ nreq < MaxRequests
    /\ nreq' = nreq + 1
    /\ req' = [req EXCEPT ![p] = r]
    /\ IF ~r.auth
       THEN /\ Return(p, Unauthorized)
            /\ pre' = Snapshot(p)
       ELSE /\ pc' = [pc EXCEPT ![p] = "body"]
            /\ resp' = [resp EXCEPT ![p] = NoResponse]
            /\ UNCHANGED <<pre, last>>
    /\ UNCHANGED <<now, stats, dash, met, streams, stores, local>>

\* the body resolves: required fields, species filter, the detection record
POSTValidate(p) ==
    /\ pc[p] = "body"
    /\ req[p].kind = "single"
    /\ NoneInSync
    /\ pre' = Snapshot(p)
    /\ met' = [met EXCEPT ![p] = Waiting(p)]
    /\ IF singleRejection(req[p]) # NoResponse
       THEN /\ Return(p, singleRejection(req[p]))
            /\ UNCHANGED local
       ELSE /\ local' = [local EXCEPT ![p] =
                  [NoLocals EXCEPT !.deviceName = deviceNameOf(req[p].device_id),
                                   !.eventId = eventIdOf(req[p].event_id, req[p].device_id),
                                   !.detection = singleDetection(req[p])]]
            /\ pc' = [pc EXCEPT ![p] = "store"]
            /\ UNCHANGED <<resp, last>>
    /\ UNCHANGED <<now, stats, dash, streams, stores, req, nreq>>

\* detectionStore.get('all') || []
storedArray == IF detectionStore.has THEN detectionStore.all ELSE <<>>

\* if (arr.length > 1000) arr.splice(1000)
truncate(arr, capacity) == IF Len(arr) > capacity THEN splice(arr, capacity) ELSE arr

\* store the detection: unshift, truncate, set
POSTStore(p) ==
    /\ pc[p] = "store"
    /\ detectionStore' =
         [has |-> TRUE,
          all |-> truncate(unshift(storedArray, local[p].detection), MaxDetections)]
    /\ pc' = [pc EXCEPT ![p] = IF hasDevice(req[p].device_id) THEN "device" ELSE "log"]
    /\ UNCHANGED <<now, stats, dash, met, streams, deviceStore, detectionEventLog, published, req, local, resp,
                   pre, last, nreq>>

\* an update of the device that leaves its status alone
recordDetectionKeepsStatus(device) ==
    [device EXCEPT !.detectionCount = @ + 1, !.lastSeen = now]

\* an update of the device that forgets the counter
recordDetectionUncounted(device) ==
    [device EXCEPT !.lastSeen = now, !.status = "online"]

\* the device after a detection of its own was stored
recordDetection(device) ==
    [device EXCEPT !.detectionCount = @ + 1, !.lastSeen = now, !.status = "online"]

POSTUpdateDevice(p) ==
    /\ pc[p] = "device"
    /\ deviceStore' = [deviceStore EXCEPT ![req[p].device_id] = recordDetection(@)]
    /\ pc' = [pc EXCEPT ![p] = "broadcast"]
    /\ UNCHANGED <<now, stats, dash, met, streams, detectionStore, detectionEventLog, published, req, local, resp,
                   pre, last, nreq>>

\* the update handed to the dashboard sessions: every open stream receives it;
\* writing to a dead stream fails, the failure stays inside and the stream is dropped
broadcastDeviceUpdate(device) ==
    /\ published' = Append(published, device)
    /\ streams' = [s \in DOMAIN streams |->
                     IF streams[s].state = "open"
                     THEN [streams[s] EXCEPT !.events = Append(@, device)]
                     ELSE IF streams[s].state = "dead"
                     THEN [streams[s] EXCEPT !.state = "closed", !.errors = @ + 1]
                     ELSE streams[s]]

\* a publish of the device record as it was before the detection
POSTBroadcastStale(p) ==
    /\ pc[p] = "broadcast"
    /\ broadcastDeviceUpdate(pre.deviceStore[req[p].device_id])
    /\ pc' = [pc EXCEPT ![p] = "log"]
    /\ UNCHANGED <<now, stats, dash, met, deviceStore, detectionStore, detectionEventLog, req, local, resp,
                   pre, last, nreq>>

\* a publish whose delivery failure reaches the handler's catch
POSTBroadcastPropagates(p) ==
    /\ pc[p] = "broadcast"
    /\ broadcastDeviceUpdate(deviceStore[req[p].device_id])
    /\ IF \E s \in DOMAIN streams : streams[s].state = "dead"
       THEN Return(p, ServerError)
       ELSE pc' = [pc EXCEPT ![p] = "log"] /\ UNCHANGED <<resp, last>>
    /\ UNCHANGED <<now, stats, dash, met, deviceStore, detectionStore, detectionEventLog, req, local,
                   pre, nreq>>

POSTBroadcast(p) ==
    /\ pc[p] = "broadcast"
    /\ broadcastDeviceUpdate(deviceStore[req[p].device_id])
    /\ pc' = [pc EXCEPT ![p] = "log"]
    /\ UNCHANGED <<now, stats, dash, met, deviceStore, detectionStore, detectionEventLog, req, local, resp,
                   pre, last, nreq>>

\* a log that is never cut
logDetectionEventUncapped(eventId, deviceId, action, details) ==
    unshift(detectionEventLog, LogEntry(eventId, deviceId, now, action, details))

\* the log after logDetectionEvent: the entry in front, the log cut to its capacity
logDetectionEvent(eventId, deviceId, action, details) ==
    truncate(unshift(detectionEventLog, LogEntry(eventId, deviceId, now, action, details)),
             MaxLogEvents)

\* the audit entry, then the success response
POSTLog(p) ==
    /\ pc[p] = "log"
    /\ detectionEventLog' =
         logDetectionEvent(local[p].eventId, req[p].device_id, "detection_received",
                           [className |-> req[p].class_name.chars,
                            confidence |-> req[p].confidence])
    /\ Return(p, Response(200, TRUE, local[p].eventId, local[p].detection.id, 0))
    /\ UNCHANGED <<now, stats, dash, met, streams, deviceStore, detectionStore, published, req, local, pre, nreq>>

-----------------------------------------------------------------------------
(* POST /api/devices/detections/batch *)

\* the detection record built from one item of a batch (it carries no eventId)
batchDetection(det, device_id, deviceName, addedCount) ==
    Detection(IF det.detection_id # NoNumber THEN det.detection_id ELSE now + addedCount,
              NoString, device_id, deviceName,
              toISOString(det.timestamp), det.class_name.chars, det.confidence)

\* for (const det of incomingDetections) { ... }: the array, the two counters,
\* and whether an item raised an exception (which ends the loop where it stands)
RECURSIVE batchLoop(_, _, _, _, _, _)
batchLoop(items, arr, addedCount, rejectedCount, device_id, deviceName) ==
    IF items = <<>>
    THEN [arr |-> arr, addedCount |-> addedCount, rejectedCount |-> rejectedCount,
          threw |-> FALSE]
    ELSE LET det == Head(items) IN
         IF isWildCatThrows(det.class_name)
         THEN [arr |-> arr, addedCount |-> addedCount, rejectedCount |-> rejectedCount,
               threw |-> TRUE]
         ELSE IF ~isWildCat(det.class_name.chars)
         THEN batchLoop(Tail(items), arr, addedCount, rejectedCount + 1, device_id, deviceName)
         ELSE IF toISOStringThrows(det.timestamp)
         THEN [arr |-> arr, addedCount |-> addedCount, rejectedCount |-> rejectedCount,
               threw |-> TRUE]
         ELSE batchLoop(Tail(items),
                        unshift(arr, batchDetection(det, device_id, deviceName, addedCount)),
                        addedCount + 1, rejectedCount, device_id, deviceName)

\* !device_id || !Array.isArray(incomingDetections)
missingBatchFields(r) == r.device_id = NoString \/ ~r.detections.isArray

\* the handler is entered: verifyRequest, then it waits for the body
BatchVerify(p, r) ==
    /\ pc[p] \in {"idle", "done"}
    /\ NoneInSync
    /\ nreq < MaxRequests
    /\ nreq' = nreq + 1
    /\ req' = [req EXCEPT ![p] = r]
    /\ IF ~r.auth
       THEN /\ Return(p, Unauthorized)
            /\ pre' = Snapshot(p)
       ELSE /\ pc' = [pc EXCEPT ![p] = "body"]
            /\ resp' = [resp EXCEPT ![p] = NoResponse]
            /\ UNCHANGED <<pre, last>>
    /\ UNCHANGED <<now, stats, dash, met, streams, stores, local>>

\* the body resolves: required fields, then the loop over the items.  The loop
\* works on the array the store holds when there is one (unshift changes it in
\* place), and on a fresh array otherwise.
BatchLoop(p) ==
    /\ pc[p] = "body"
    /\ req[p].kind = "batch"
    /\ NoneInSync
    /\ pre' = Snapshot(p)
    /\ met' = [met EXCEPT ![p] = Waiting(p)]
    /\ IF ~req[p].json
       THEN Return(p, ServerError) /\ UNCHANGED <<local, detectionStore>>
       ELSE IF missingBatchFields(req[p])
       THEN Return(p, BadRequest) /\ UNCHANGED <<local, detectionStore>>
       ELSE LET r == batchLoop(req[p].detections.items, storedArray, 0, 0,
                               req[p].device_id, deviceNameOf(req[p].device_id))
            IN  /\ detectionStore' =
                     IF detectionStore.has THEN [detectionStore EXCEPT !.all = r.arr]
                     ELSE detectionStore
                /\ IF r.threw
                   THEN Return(p, ServerError) /\ UNCHANGED local
                   ELSE /\ local' = [local EXCEPT ![p] =
                              [NoLocals EXCEPT
                                 !.deviceName = deviceNameOf(req[p].device_id),
                                 !.storedDetections = r.arr,
                                 !.addedCount = r.addedCount,
                                 !.rejectedCount = r.rejectedCount]]
                        /\ pc' = [pc EXCEPT ![p] = "commit"]
                        /\ UNCHANGED <<resp, last>>
    /\ UNCHANGED <<now, stats, dash, streams, deviceStore, detectionEventLog, published, req, nreq>>

\* truncate the array and set it as 'all'
BatchCommit(p) ==
    /\ pc[p] = "commit"
    /\ detectionStore' =
         [has |-> TRUE, all |-> truncate(local[p].storedDetections, MaxDetections)]
    /\ local' = [local EXCEPT ![p].storedDetections = <<>>]
    /\ pc' = [pc EXCEPT ![p] =
                IF hasDevice(req[p].device_id) THEN "batchDevice" ELSE "batchRespond"]
    /\ UNCHANGED <<now, stats, dash, met, streams, deviceStore, detectionEventLog, published, req, resp,
                   pre, last, nreq>>

\* the update of the single-detection route, in the batch route
recordBatchByOne(device, addedCount) ==
    [device EXCEPT !.detectionCount = @ + 1, !.lastSeen = now]

\* the device after a batch of its own was stored
recordBatch(device, addedCount) ==
    [device EXCEPT !.detectionCount = @ + addedCount, !.lastSeen = now]

BatchUpdateDevice(p) ==
    /\ pc[p] = "batchDevice"
    /\ deviceStore' = [deviceStore EXCEPT ![req[p].device_id] =
                         recordBatch(@, local[p].addedCount)]
    /\ pc' = [pc EXCEPT ![p] = "batchRespond"]
    /\ UNCHANGED <<now, stats, dash, met, streams, detectionStore, detectionEventLog, published, req, local, resp,
                   pre, last, nreq>>

BatchRespond(p) ==
    /\ pc[p] = "batchRespond"
    /\ Return(p, Response(200, TRUE, NoString, NoNumber, local[p].addedCount))
    /\ UNCHANGED <<now, stats, dash, met, streams, stores, req, local, pre, nreq>>

-----------------------------------------------------------------------------
(* GET /api/detections and GET /api/devices/detections *)

\* a query that cuts to the limit before it filters by device
GETDetectionsLimitFirst(deviceId, limit) ==
    LET wild == slice(filterWildCat(storedArray), limit)
    IN  IF deviceId # NoString THEN filterDevice(wild, deviceId) ELSE wild

\* detections of the store for a device (NoString: every device), at most limit
GETDetections(deviceId, limit) ==
    LET wild == filterWildCat(storedArray)
        mine == IF deviceId # NoString THEN filterDevice(wild, deviceId) ELSE wild
    IN  slice(mine, limit)

\* entries of the detection event log for a device, at most limit
GETLogs(deviceId, limit) ==
    LET mine == IF deviceId # NoString THEN filterDevice(detectionEventLog, deviceId)
                ELSE detectionEventLog
    IN  slice(mine, limit)

-----------------------------------------------------------------------------

(* GET /api/stats *)

\* a device seen less than this many milliseconds ago counts as online
OnlineWindowMs == 120000

\* devices.filter(d => (now - new Date(d.lastSeen).getTime()) <= 120000).length
onlineDevicesInclusive(devices, t) ==
    Cardinality({ d \in DOMAIN devices : t - devices[d].lastSeen <= OnlineWindowMs })

\* devices.filter(d => (now - new Date(d.lastSeen).getTime()) < 120000).length
onlineDevices(devices, t) ==
    Cardinality({ d \in DOMAIN devices : t - devices[d].lastSeen < OnlineWindowMs })

\* detections.filter(d => new Date(d.timestamp).getTime() > since)
filterSince(detections, since) == SelectSeq(detections, LAMBDA d : d.timestamp > since)

\* for (const d of detections) dist[d.className] = (dist[d.className] || 0) + 1:
\* the entries of the object in the order their keys were first set
RECURSIVE countByClass(_, _)
countByClass(detections, dist) ==
    IF detections = <<>> THEN dist
    ELSE LET c == Head(detections).className
             at == { i \in 1..Len(dist) : dist[i].className = c }
         IN  countByClass(Tail(detections),
                 IF at = {} THEN Append(dist, [className |-> c, count |-> 1])
                 ELSE [i \in 1..Len(dist) |->
                          IF i \in at THEN [dist[i] EXCEPT !.count = @ + 1] ELSE dist[i]])

\* the place of e in a list sorted by compare(a, b) = b - a: behind every entry
\* that does not compare greater than e (Array.prototype.sort is stable)
placeByCount(sorted, e) ==
    LET smaller == { i \in 1..Len(sorted) : sorted[i].count - e.count < 0 }
    IN  IF smaller = {} THEN Len(sorted) + 1
        ELSE CHOOSE i \in smaller : \A j \in smaller : i <= j

RECURSIVE insertEach(_, _)
insertEach(entries, sorted) ==
    IF entries = <<>> THEN sorted
    ELSE LET e == Head(entries)
             k == placeByCount(sorted, e)
         IN  insertEach(Tail(entries),
                 SubSeq(sorted, 1, k - 1) \o <<e>> \o SubSeq(sorted, k, Len(sorted)))

\* entries.sort(([, a], [, b]) => a - b)
sortByCountAscending(entries) ==
    LET RECURSIVE up(_, _)
        up(es, sorted) ==
            IF es = <<>> THEN sorted
            ELSE LET e == Head(es)
                     larger == { i \in 1..Len(sorted) : sorted[i].count > e.count }
                     k == IF larger = {} THEN Len(sorted) + 1
                          ELSE CHOOSE i \in larger : \A j \in larger : i <= j
                 IN  up(Tail(es), SubSeq(sorted, 1, k - 1) \o <<e>> \o SubSeq(sorted, k, Len(sorted)))
    IN  up(entries, <<>>)

\* Object.entries(classDistribution).sort(([, a], [, b]) => b - a)
sortByCount(entries) == insertEach(entries, <<>>)

\* the buckets of the hours that end i hours ago, one hour too late
hourlyBucketLate(detections, t, i) ==
    Len(SelectSeq(detections,
                  LAMBDA d : d.timestamp >= t - i * HourMs /\ d.timestamp < t - (i - 1) * HourMs))

\* the detections of the hour that ends i hours ago:
\* hourStart = now - (i + 1) h, hourEnd = now - i h, t >= hourStart && t < hourEnd
hourlyBucket(detections, t, i) ==
    Len(SelectSeq(detections,
                  LAMBDA d : d.timestamp >= t - (i + 1) * HourMs /\ d.timestamp < t - i * HourMs))

\* for (let i = 23; i >= 0; i--) hourlyDetections.push({hour, count}); the hour
\* label is the hour of day of hourEnd, here in UTC
hourlyDetections(detections, t) ==
    [k \in 1..24 |->
        LET i == 24 - k
        IN  [hour |-> ((t - i * HourMs) \div HourMs) % 24,
             count |-> hourlyBucket(detections, t, i)]]

\* a 24-hour total that counts the detection that is exactly 24 hours old
Stats24hInclusive(devices, stored, t) ==
    LET detections == filterWildCat(stored)
        detections24h == SelectSeq(detections, LAMBDA d : d.timestamp >= t - 24 * HourMs)
    IN  [totalDevices |-> Cardinality(DOMAIN devices),
         onlineDevices |-> onlineDevices(devices, t),
         totalDetections24h |-> Len(detections24h),
         totalDetectionsWeek |-> Len(filterSince(detections, t - 7 * 24 * HourMs)),
         classDistribution |-> sortByCount(countByClass(detections24h, <<>>)),
         hourlyDetections |-> hourlyDetections(detections, t)]

\* the DashboardStats of the stores at the time t
Stats(devices, stored, t) ==
    LET detections == filterWildCat(stored)
        oneDayAgo == t - 24 * HourMs
        oneWeekAgo == t - 7 * 24 * HourMs
        detections24h == filterSince(detections, oneDayAgo)
        detectionsWeek == filterSince(detections, oneWeekAgo)
    IN  [totalDevices |-> Cardinality(DOMAIN devices),
         onlineDevices |-> onlineDevices(devices, t),
         totalDetections24h |-> Len(detections24h),
         totalDetectionsWeek |-> Len(detectionsWeek),
         classDistribution |-> sortByCount(countByClass(detections24h, <<>>)),
         hourlyDetections |-> hourlyDetections(detections, t)]

StatsRequest == [NoRequest EXCEPT !.kind = "stats"]

\* the handler has no await: it reads the stores and the clock and answers
GETStats(p) ==
    /\ pc[p] \in {"idle", "done"}
    /\ NoneInSync
    /\ req' = [req EXCEPT ![p] = StatsRequest]
    /\ stats' = Stats(deviceStore, storedArray, now)
    /\ pre' = Snapshot(p)
    /\ Return(p, Response(200, TRUE, NoString, NoNumber, 0))
    /\ UNCHANGED <<now, dash, streams, stores, local, met, nreq>>

\* how long ago the devices were last seen, and the detections the store holds,
\* when the statistics are asked for
LastSeenAges == { <<60 * 1000, 0>>, <<120 * 1000, 130 * 1000>>, <<130 * 1000, 60 * 1000>> }

Lion == <<"L","i","o","n">>
lion == <<"l","i","o","n">>

StoredDetections ==
    { Detection(1, "evt-a", "cam-2", "cam-2", StartTime + HourMs, Tiger.chars, 90),
      Detection(2, "evt-b", "cam-2", "cam-2", StartTime, lion, 90),
      Detection(3, "evt-c", "cam-1", "Camera 1", StartTime - HourMs, Lion, 90),
      Detection(4, "evt-d", "cam-1", "Camera 1", StartTime - 24 * HourMs + TickMs, Tiger.chars, 90),
      Detection(5, "evt-e", "cam-2", "cam-2", StartTime - 24 * HourMs, lion, 90),
      Detection(6, "evt-f", "cam-2", "cam-2", StartTime - 7 * 24 * HourMs + TickMs, Tiger.chars, 90) }

InitStats ==
    /\ now = StartTime
    /\ \E ages \in LastSeenAges :
          deviceStore = [d \in Registered |->
              IF d = "cam-1" THEN Device("Camera 1", StartTime - ages[1], "online", 3)
              ELSE Device("", StartTime - ages[2], "online", 0)]
    /\ \E s \in SeqsUpTo(StoredDetections, MaxStored) :
          detectionStore = [has |-> s # <<>>, all |-> s]
    /\ detectionEventLog = <<>>
    /\ published = <<>>
    /\ streams = [s \in Sessions |-> NoStream]
    /\ stats = NoStats
    /\ dash = NoDashboard
    /\ pc = [p \in {1} |-> "idle"]
    /\ req = [p \in {1} |-> NoRequest]
    /\ local = [p \in {1} |-> NoLocals]
    /\ resp = [p \in {1} |-> NoResponse]
    /\ pre = Snapshot(0)
    /\ last = 0
    /\ met = [p \in {1} |-> {}]
    /\ nreq = 0

NextStats ==
    \/ Tick
    \/ \E p \in Handlers : GETStats(p)

SpecStats == InitStats /\ [][NextStats]_vars

-----------------------------------------------------------------------------

(* The dashboard page (component Dashboard).  The hook useDeviceStream is
   outside the component: what it returns on the first render, and when its
   connection goes up or down and delivers devices, is not decided here. *)

\* the device arrays the page handles: origin tells which producer built the
\* array (useState's initial [], the stream hook, or a poll of /api/devices)
DeviceArray(origin, items) == [origin |-> origin, items |-> items]

StreamArrays == { DeviceArray("stream", <<"cam-1">>), DeviceArray("stream", <<"cam-1", "cam-3">>) }
ApiArrays == { DeviceArray("api", <<>>), DeviceArray("api", <<"cam-1", "cam-3">>) }

\* what a render sees of the stream: isStreamConnected and streamDevices
Render(isStreamConnected, streamDevices) ==
    [isStreamConnected |-> isStreamConnected, streamDevices |-> streamDevices]

\* a call of fetchDashboardData that awaits its responses: the render whose
\* fetchDashboardData was called, and whether the mount effect, the interval
\* or the refresh button called it
Fetch(by, render) == [by |-> by, render |-> render]

\* !isStreamConnected || streamDevices.length === 0
usesApiDevices(render) ==
    ~render.isStreamConnected \/ Len(render.streamDevices.items) = 0

\* the first render with the values the stream hook starts with, and the two
\* effects that follow it: the stream's devices are shown if there are any,
\* and fetchDashboardData of this render is called and handed to setInterval
DashboardMount(connected, streamDevices) ==
    /\ ~dash.mounted
    /\ dash' = [mounted |-> TRUE,
                first |-> Render(connected, streamDevices),
                current |-> Render(connected, streamDevices),
                devices |-> IF Len(streamDevices.items) > 0 THEN streamDevices
                            ELSE DeviceArray("initial", <<>>),
                pending |-> <<Fetch("mount", Render(connected, streamDevices))>>,
                polls |-> 1]
    /\ UNCHANGED <<now, stats, stores, streams, pc, req, local, resp, pre, last, met, nreq>>

\* the stream hook reports that its connection is up, or down
StreamConnects ==
    /\ dash.mounted
    /\ ~dash.current.isStreamConnected
    /\ dash' = [dash EXCEPT !.current.isStreamConnected = TRUE]
    /\ UNCHANGED <<now, stats, stores, streams, pc, req, local, resp, pre, last, met, nreq>>

StreamDisconnects ==
    /\ dash.mounted
    /\ dash.current.isStreamConnected
    /\ dash' = [dash EXCEPT !.current.isStreamConnected = FALSE]
    /\ UNCHANGED <<now, stats, stores, streams, pc, req, local, resp, pre, last, met, nreq>>

\* the stream hook delivers a device list; the effect on [streamDevices,
\* streamLastUpdate] shows it: if (streamDevices.length > 0) setDevices(streamDevices)
StreamDelivers(streamDevices) ==
    /\ dash.mounted
    /\ dash.current.isStreamConnected
    /\ dash' = [dash EXCEPT !.current.streamDevices = streamDevices,
                            !.devices = IF Len(streamDevices.items) > 0 THEN streamDevices
                                        ELSE @]
    /\ UNCHANGED <<now, stats, stores, streams, pc, req, local, resp, pre, last, met, nreq>>

\* setInterval(() => fetchDashboardData(), 15000), set up by the effect with
\* the dependencies []: the function of the first render is called
IntervalFires ==
    /\ dash.mounted
    /\ dash.polls < MaxPolls
    /\ dash' = [dash EXCEPT !.pending = Append(@, Fetch("interval", dash.first)),
                            !.polls = @ + 1]
    /\ UNCHANGED <<now, stats, stores, streams, pc, req, local, resp, pre, last, met, nreq>>

\* handleRefresh: fetchDashboardData(true) of the render on the screen
handleRefresh ==
    /\ dash.mounted
    /\ dash.polls < MaxPolls
    /\ dash' = [dash EXCEPT !.pending = Append(@, Fetch("refresh", dash.current)),
                            !.polls = @ + 1]
    /\ UNCHANGED <<now, stats, stores, streams, pc, req, local, resp, pre, last, met, nreq>>

\* the pending list without its k-th call
without(pending, k) == SubSeq(pending, 1, k - 1) \o SubSeq(pending, k + 1, Len(pending))

\* the three responses of a call have arrived (devicesData.devices || []), or
\* one of them has failed; the calls finish in any order
fetchDashboardData(k, ok, apiDevices) ==
    /\ dash.mounted
    /\ k \in 1..Len(dash.pending)
    /\ dash' = [dash EXCEPT !.pending = without(@, k),
                            !.devices = IF ok /\ usesApiDevices(dash.pending[k].render)
                                        THEN apiDevices ELSE @]
    /\ UNCHANGED <<now, stats, stores, streams, pc, req, local, resp, pre, last, met, nreq>>

NextDashboard ==
    \/ \E c \in BOOLEAN, a \in StreamArrays \cup {DeviceArray("stream", <<>>)} :
          DashboardMount(c, a)
    \/ StreamConnects
    \/ StreamDisconnects
    \/ \E a \in StreamArrays : StreamDelivers(a)
    \/ IntervalFires
    \/ handleRefresh
    \/ \E k \in 1..MaxPolls, ok \in BOOLEAN, a \in ApiArrays : fetchDashboardData(k, ok, a)

SpecDashboard == Init /\ [][NextDashboard]_vars

-----------------------------------------------------------------------------

Next ==
    \/ Tick
    \/ \E p \in Handlers, r \in SingleRequests : POSTVerify(p, r)
    \/ \E p \in Handlers : POSTValidate(p)
    \/ \E p \in Handlers : POSTStore(p)
    \/ \E p \in Handlers : POSTUpdateDevice(p)
    \/ \E p \in Handlers : POSTBroadcast(p)
    \/ \E p \in Handlers : POSTLog(p)
    \/ \E p \in Handlers, r \in BatchRequests : BatchVerify(p, r)
    \/ \E p \in Handlers : BatchLoop(p)
    \/ \E p \in Handlers : BatchCommit(p)
    \/ \E p \in Handlers : BatchUpdateDevice(p)
    \/ \E p \in Handlers : BatchRespond(p)

Spec == Init /\ [][Next]_vars

\* the traffic of a process whose stores are about to overflow
FullSingleRequests ==
    { Single(TRUE, TRUE, "cam-1", Tiger, Plain),
      Single(TRUE, TRUE, "cam-2", LYNX, Tagged) }

FullBatchRequests ==
    { Batch(TRUE, TRUE, "cam-1", [isArray |-> TRUE, items |-> s]) :
        s \in SeqsUpTo({Item(Tiger, Plain)}, MaxBatch)
              \cup {<<Item(Tiger, Plain), Item(JsUndefined, Plain)>>} }

NextFull ==
    \/ Tick
    \/ \E p \in Handlers, r \in FullSingleRequests : POSTVerify(p, r)
    \/ \E p \in Handlers : POSTValidate(p)
    \/ \E p \in Handlers : POSTStore(p)
    \/ \E p \in Handlers : POSTUpdateDevice(p)
    \/ \E p \in Handlers : POSTBroadcast(p)
    \/ \E p \in Handlers : POSTLog(p)
    \/ \E p \in Handlers, r \in FullBatchRequests : BatchVerify(p, r)
    \/ \E p \in Handlers : BatchLoop(p)
    \/ \E p \in Handlers : BatchCommit(p)
    \/ \E p \in Handlers : BatchUpdateDevice(p)
    \/ \E p \in Handlers : BatchRespond(p)

SpecFull == InitFull /\ [][NextFull]_vars

\* a dashboard session opens its device-update stream
Subscribe(s) ==
    /\ NoneInSync
    /\ streams[s].state = "closed"
    /\ streams' = [streams EXCEPT ![s] = [NoStream EXCEPT !.state = "open"]]
    /\ UNCHANGED <<now, stats, dash, stores, pc, req, local, resp, pre, last, met, nreq>>

\* the connection of a session closes, at any moment
Disconnect(s) ==
    /\ streams[s].state = "open"
    /\ streams' = [streams EXCEPT ![s].state = "dead"]
    /\ UNCHANGED <<now, stats, dash, stores, pc, req, local, resp, pre, last, met, nreq>>

\* the hub notices the closed connection and drops the subscription
Unsubscribe(s) ==
    /\ NoneInSync
    /\ streams[s].state = "dead"
    /\ streams' = [streams EXCEPT ![s].state = "closed"]
    /\ UNCHANGED <<now, stats, dash, stores, pc, req, local, resp, pre, last, met, nreq>>

\* the traffic while dashboards come and go
StreamSingleRequests ==
    { Single(TRUE, TRUE, "cam-1", Tiger, Plain),
      Single(TRUE, TRUE, "cam-2", Tiger, Plain),
      Single(TRUE, TRUE, "cam-1", dog, Plain) }

NextStream ==
    \/ Tick
    \/ \E s \in Sessions : Subscribe(s)
    \/ \E s \in Sessions : Disconnect(s)
    \/ \E s \in Sessions : Unsubscribe(s)
    \/ \E p \in Handlers, r \in StreamSingleRequests : POSTVerify(p, r)
    \/ \E p \in Handlers : POSTValidate(p)
    \/ \E p \in Handlers : POSTStore(p)
    \/ \E p \in Handlers : POSTUpdateDevice(p)
    \/ \E p \in Handlers : POSTBroadcast(p)
    \/ \E p \in Handlers : POSTLog(p)

SpecStream == Init /\ [][NextStream]_vars

\* the traffic that fills the store for the queries: two devices, one of them in batches
QuerySingleRequests ==
    { Single(TRUE, TRUE, "cam-1", Tiger, Plain),
      Single(TRUE, TRUE, "cam-2", LYNX, Tagged) }

QueryBatchRequests ==
    { Batch(TRUE, TRUE, d, [isArray |-> TRUE, items |-> s]) :
        d \in DeviceIds, s \in SeqsUpTo({Item(Tiger, Plain)}, MaxBatch) \ {<<>>} }

NextQuery ==
    \/ \E p \in Handlers, r \in QuerySingleRequests : POSTVerify(p, r)
    \/ \E p \in Handlers : POSTValidate(p)
    \/ \E p \in Handlers : POSTStore(p)
    \/ \E p \in Handlers : POSTUpdateDevice(p)
    \/ \E p \in Handlers : POSTBroadcast(p)
    \/ \E p \in Handlers : POSTLog(p)
    \/ \E p \in Handlers, r \in QueryBatchRequests : BatchVerify(p, r)
    \/ \E p \in Handlers : BatchLoop(p)
    \/ \E p \in Handlers : BatchCommit(p)
    \/ \E p \in Handlers : BatchUpdateDevice(p)
    \/ \E p \in Handlers : BatchRespond(p)

SpecQuery == Init /\ [][NextQuery]_vars

\* two requests in flight at the same time, in a fresh process
InitConcurrent == InitFor({1, 2}, 0)

\* the traffic of two devices reporting at the same time
ConcurrentSingleRequests ==
    { Single(TRUE, TRUE, "cam-1", Tiger, Plain),
      Single(TRUE, TRUE, "cam-3", Tiger, Plain),
      Single(TRUE, TRUE, "cam-1", dog, Plain) }

ConcurrentBatchRequests ==
    { Batch(TRUE, TRUE, "cam-1", [isArray |-> TRUE, items |-> s]) :
        s \in SeqsUpTo({Item(Tiger, Plain)}, MaxBatch) \ {<<>>} }

NextConcurrent ==
    \/ Tick
    \/ \E p \in Handlers, r \in ConcurrentSingleRequests : POSTVerify(p, r)
    \/ \E p \in Handlers : POSTValidate(p)
    \/ \E p \in Handlers : POSTStore(p)
    \/ \E p \in Handlers : POSTUpdateDevice(p)
    \/ \E p \in Handlers : POSTBroadcast(p)
    \/ \E p \in Handlers : POSTLog(p)
    \/ \E p \in Handlers, r \in ConcurrentBatchRequests : BatchVerify(p, r)
    \/ \E p \in Handlers : BatchLoop(p)
    \/ \E p \in Handlers : BatchCommit(p)
    \/ \E p \in Handlers : BatchUpdateDevice(p)
    \/ \E p \in Handlers : BatchRespond(p)

SpecConcurrent == InitConcurrent /\ [][NextConcurrent]_vars

-----------------------------------------------------------------------------
(* Vocabulary of the properties *)

\* handler p has answered, and nothing has acted on the stores since: pre holds
\* the stores as p found them
Answered(p) == last = p /\ pc[p] = "done" /\ pre.by = p

\* the array a snapshot's detection Map holds under 'all'
arrayOf(store) == IF store.has THEN store.all ELSE <<>>

\* the species of the allow-list, in lower case
SpeciesNames ==
    { <<"t","i","g","e","r">>, <<"l","e","o","p","a","r","d">>, <<"j","a","g","u","a","r">>,
      <<"l","i","o","n">>, <<"c","h","e","e","t","a","h">>,
      <<"s","n","o","w"," ","l","e","o","p","a","r","d">>,
      <<"c","l","o","u","d","e","d"," ","l","e","o","p","a","r","d">>,
      <<"p","u","m","a">>, <<"l","y","n","x">> }

AllowedName(chars) == toLowerCase(chars) \in SpeciesNames

\* a single detection that passed verifyRequest and whose body parsed
SingleServed(p) == req[p].kind = "single" /\ req[p].auth /\ req[p].json

\* a class_name that is a non-empty string
NamesAClass(v) == v.type = "string" /\ v.chars # <<>>

\* x put in front of arr, arr cut to capacity
Prepended(x, arr, capacity) ==
    LET longer == <<x>> \o arr
    IN  IF Len(longer) > capacity THEN SubSeq(longer, 1, capacity) ELSE longer

-----------------------------------------------------------------------------
(* C1: in every state another request can observe (no handler is between the
   resolution of its body and its response), the shared detection list holds
   at most 1000 detections, whatever requests were served and however they
   ended. *)
C1_ListWithinCapacity == NoneInSync => Len(storedArray) <= 1000

(* C2: every detection in the detection store, and every detection record a
   handler has built, has a className whose lower-cased form is one of the
   nine allowed species. *)
C2_OnlyAllowedSpecies ==
    /\ \A i \in 1..Len(storedArray) : AllowedName(storedArray[i].className)
    /\ \A p \in Handlers :
         /\ local[p].detection # NoDetection => AllowedName(local[p].detection.className)
         /\ \A i \in 1..Len(local[p].storedDetections) :
              AllowedName(local[p].storedDetections[i].className)

\* a mixed-case species is in the store and a dog has just been turned away
C2_Witness ==
    /\ \E i \in 1..Len(storedArray) : storedArray[i].className = <<"T","i","g","e","r">>
    /\ \E p \in Handlers : Answered(p) /\ req[p].auth /\ req[p].class_name = dog

(* C3 as claimed: an authorized single detection with an allowed class_name (in
   any letter case) and a device_id is answered success=true, and the next
   GET /detections?device_id=<device> returns the new record first, with the
   className as sent and the confidence as sent. *)
C3_AcceptedThenListed ==
    \A p \in Handlers :
        (/\ Answered(p)
         /\ SingleServed(p)
         /\ req[p].device_id # NoString
         /\ NamesAClass(req[p].class_name)
         /\ AllowedName(req[p].class_name.chars))
        => LET listed == GETDetections(req[p].device_id, DefaultDetectionLimit)
           IN  /\ resp[p].success
               /\ Len(listed) >= 1
               /\ listed[1].eventId = resp[p].event_id
               /\ listed[1].className = req[p].class_name.chars
               /\ listed[1].confidence = req[p].confidence

(* C3 as amended: the same, for the detections whose timestamp is a number (a
   detection without one is answered 500 and is not listed). *)
C3_DatedAcceptedThenListed ==
    \A p \in Handlers :
        (/\ Answered(p)
         /\ SingleServed(p)
         /\ req[p].device_id # NoString
         /\ NamesAClass(req[p].class_name)
         /\ AllowedName(req[p].class_name.chars)
         /\ req[p].timestamp.type = "number")
        => LET listed == GETDetections(req[p].device_id, DefaultDetectionLimit)
           IN  /\ resp[p].success
               /\ Len(listed) >= 1
               /\ listed[1].eventId = resp[p].event_id
               /\ listed[1].className = req[p].class_name.chars
               /\ listed[1].confidence = req[p].confidence

\* an upper-case species was accepted for a device that already had a detection listed
C3_Witness ==
    \E p \in Handlers :
        /\ Answered(p) /\ SingleServed(p) /\ resp[p].success
        /\ req[p].class_name = LYNX
        /\ Len(GETDetections(req[p].device_id, DefaultDetectionLimit)) >= 2

(* C4: a well-formed, authorized single detection of a species that is not
   allowed adds exactly one entry for its device to the audit log: the audit
   query for the device returns one more entry than before the request. *)
C4_RejectionAudited ==
    \A p \in Handlers :
        (/\ Answered(p)
         /\ SingleServed(p)
         /\ req[p].device_id # NoString
         /\ NamesAClass(req[p].class_name)
         /\ ~AllowedName(req[p].class_name.chars))
        => Len(filterDevice(detectionEventLog, req[p].device_id))
             = Len(filterDevice(pre.detectionEventLog, req[p].device_id)) + 1

(* C5: an authorized single detection whose class_name is a species that is not
   allowed is answered 400 with success=false; the detection store and every
   device record are as they were and no device update is published. *)
C5_RejectionChangesNothing ==
    \A p \in Handlers :
        (/\ Answered(p)
         /\ SingleServed(p)
         /\ NamesAClass(req[p].class_name)
         /\ ~AllowedName(req[p].class_name.chars))
        => /\ resp[p].status = 400
           /\ ~resp[p].success
           /\ detectionStore = pre.detectionStore
           /\ deviceStore = pre.deviceStore
           /\ published = pre.published

\* a dog was reported for a registered device after something had been stored and published
C5_Witness ==
    \E p \in Handlers :
        /\ Answered(p) /\ SingleServed(p)
        /\ req[p].class_name = dog /\ req[p].device_id = "cam-1"
        /\ storedArray # <<>> /\ published # <<>>

(* C6: an authorized single detection without device_id or without class_name
   is answered 400 and changes nothing: detection store, device records and
   audit log are as they were and no device update is published. *)
C6_MissingFieldChangesNothing ==
    \A p \in Handlers :
        (/\ Answered(p)
         /\ SingleServed(p)
         /\ (req[p].device_id = NoString \/ Falsy(req[p].class_name)))
        => /\ resp[p].status = 400
           /\ detectionStore = pre.detectionStore
           /\ deviceStore = pre.deviceStore
           /\ detectionEventLog = pre.detectionEventLog
           /\ published = pre.published

\* a detection without class_name arrived for a device that had detections stored
C6_Witness ==
    \E p \in Handlers :
        /\ Answered(p) /\ SingleServed(p)
        /\ req[p].device_id = "cam-1" /\ req[p].class_name = JsUndefined
        /\ storedArray # <<>>

(* C7: a single or batch request whose credential does not verify is answered
   401, and detection store, device records and audit log are the same after
   it as before it, whatever its payload. *)
C7_UnauthorizedChangesNothing ==
    \A p \in Handlers :
        (Answered(p) /\ ~req[p].auth)
        => /\ resp[p].status = 401
           /\ detectionStore = pre.detectionStore
           /\ deviceStore = pre.deviceStore
           /\ detectionEventLog = pre.detectionEventLog
           /\ published = pre.published

\* an unverified batch carrying an allowed species arrived after something had been stored
C7_Witness ==
    \E p \in Handlers :
        /\ Answered(p) /\ ~req[p].auth /\ req[p].kind = "batch"
        /\ req[p].detections.items # <<>>
        /\ storedArray # <<>>

(* C8: every single or batch request answered with 401, 400 or 500 leaves the
   detection store, the device records and the audit log exactly as they were
   before it; a batch that fails on a later item has inserted none of its
   earlier items. *)
C8_ErrorChangesNothing ==
    \A p \in Handlers :
        (Answered(p) /\ resp[p].status \in {400, 401, 500})
        => /\ detectionStore = pre.detectionStore
           /\ deviceStore = pre.deviceStore
           /\ detectionEventLog = pre.detectionEventLog

(* C9: at the moment a device update is published for an accepted detection,
   the detection is already first in the detection store and the device record
   already carries the counter raised by one, a lastSeen taken while the request
   was processed and status online; the update is that device record. *)
C9_PublishAfterCommit ==
    [][published' # published =>
         \E p \in Handlers :
            LET id == req[p].device_id IN
            /\ InSync(p)
            /\ storedArray # <<>>
            /\ Head(storedArray) = local[p].detection
            /\ deviceStore[id].detectionCount = pre.deviceStore[id].detectionCount + 1
            /\ deviceStore[id].lastSeen >= pre.at
            /\ deviceStore[id].lastSeen <= now
            /\ deviceStore[id].status = "online"
            /\ published' = Append(published, deviceStore[id])]_vars

\* an update has just been published for a device that was offline, some time after the request arrived
C9_Witness ==
    \E p \in Handlers :
        /\ pc[p] = "log"
        /\ published # <<>>
        /\ pre.deviceStore[req[p].device_id].status = "offline"
        /\ published[Len(published)].lastSeen > pre.at

(* C10: a single detection acknowledged with success=true has put exactly one
   detection in front of the detection store and exactly one
   detection_received entry in front of the audit log; the event_id of the
   response, of that detection and of that entry are the same, and it is the
   caller's event_id when one was sent; registered device or not. *)
C10_OneInsertionOneEntry ==
    \A p \in Handlers :
        (Answered(p) /\ req[p].kind = "single" /\ resp[p].success)
        => /\ storedArray # <<>>
           /\ storedArray = Prepended(Head(storedArray), arrayOf(pre.detectionStore), 1000)
           /\ Head(storedArray).eventId = resp[p].event_id
           /\ Head(storedArray).deviceId = req[p].device_id
           /\ detectionEventLog # <<>>
           /\ detectionEventLog = Prepended(Head(detectionEventLog), pre.detectionEventLog, 1000)
           /\ Head(detectionEventLog).eventId = resp[p].event_id
           /\ Head(detectionEventLog).deviceId = req[p].device_id
           /\ Head(detectionEventLog).action = "detection_received"
           /\ resp[p].event_id # NoString
           /\ req[p].event_id # NoString => resp[p].event_id = req[p].event_id

\* a detection of a device without a record was acknowledged after a detection with the caller's event_id was stored
C10_Witness ==
    \E p \in Handlers :
        /\ Answered(p) /\ req[p].kind = "single" /\ resp[p].success
        /\ ~hasDevice(req[p].device_id)
        /\ \E i \in 1..Len(storedArray) : storedArray[i].eventId = "evt-1"

(* C11: an accepted single detection for a registered device raises that
   device's detection counter by exactly 1, sets its lastSeen to the time at
   which the request was processed and its status to online, whatever the
   status was (online, offline or error); every other device record is as it
   was. *)
C11_DeviceRecorded ==
    \A p \in Handlers :
        (/\ Answered(p) /\ req[p].kind = "single" /\ resp[p].success
         /\ req[p].device_id \in DOMAIN pre.deviceStore)
        => LET id == req[p].device_id IN
           /\ DOMAIN deviceStore = DOMAIN pre.deviceStore
           /\ deviceStore[id].detectionCount = pre.deviceStore[id].detectionCount + 1
           /\ deviceStore[id].lastSeen >= pre.at
           /\ deviceStore[id].lastSeen <= now
           /\ deviceStore[id].status = "online"
           /\ deviceStore[id].name = pre.deviceStore[id].name
           /\ \A d \in DOMAIN deviceStore \ {id} : deviceStore[d] = pre.deviceStore[d]

\* a detection was accepted for a device that was found in the given status
C11_Found(status) ==
    \E p \in Handlers :
        /\ Answered(p) /\ req[p].kind = "single" /\ resp[p].success
        /\ req[p].device_id \in DOMAIN pre.deviceStore
        /\ pre.deviceStore[req[p].device_id].status = status

\* the device in error has just had a detection accepted, after the offline one had one (and so was online)
C11_Witness ==
    /\ C11_Found("error")
    /\ deviceStore["cam-1"].status = "online"
    /\ deviceStore["cam-1"].detectionCount = InitialDevices["cam-1"].detectionCount + 1

-----------------------------------------------------------------------------
(* Vocabulary of the batch properties *)

\* a batch that passed verifyRequest, whose body parsed and names a device and an array
BatchServed(p) ==
    /\ req[p].kind = "batch" /\ req[p].auth /\ req[p].json
    /\ req[p].device_id # NoString /\ req[p].detections.isArray

\* an item that names a class and carries a timestamp
WellFormed(item) == item.class_name.type = "string" /\ item.timestamp.type = "number"

AllWellFormed(items) == \A i \in 1..Len(items) : WellFormed(items[i])

\* the items of an allowed species, in the order of the batch
AllowedItems(items) ==
    SelectSeq(items, LAMBDA item : item.class_name.type = "string"
                                   /\ AllowedName(item.class_name.chars))

Min(a, b) == IF a < b THEN a ELSE b

\* arr is old with n detections of the device put in front, cut to capacity
GainedInFront(arr, old, n, deviceId, capacity) ==
    /\ Len(arr) = Min(Len(old) + n, capacity)
    /\ \A i \in 1..Min(n, capacity) :
         arr[i].deviceId = deviceId /\ AllowedName(arr[i].className)
    /\ \A i \in 1..Len(old) : n + i <= capacity => arr[n + i] = old[i]

(* C12: a batch for a registered device whose items are a of allowed species
   and r of other species (each item naming a class and carrying a timestamp)
   is answered success with count = a; exactly a detections of the device are
   added in front of the detection store, and the device's detection counter
   is a higher, not a + r. *)
C12_BatchCountsAccepted ==
    \A p \in Handlers :
        (/\ Answered(p) /\ BatchServed(p)
         /\ req[p].device_id \in DOMAIN pre.deviceStore
         /\ AllWellFormed(req[p].detections.items))
        => LET id == req[p].device_id
               a == Len(AllowedItems(req[p].detections.items))
           IN  /\ resp[p].status = 200
               /\ resp[p].success
               /\ resp[p].count = a
               /\ GainedInFront(storedArray, arrayOf(pre.detectionStore), a, id, 1000)
               /\ deviceStore[id].detectionCount = pre.deviceStore[id].detectionCount + a

\* a batch of one tiger and one dog was answered by a process that already held a detection
C12_Witness ==
    \E p \in Handlers :
        /\ Answered(p) /\ BatchServed(p) /\ hasDevice(req[p].device_id)
        /\ req[p].detections.items = <<Item(Tiger, Plain), Item(dog, Plain)>>
        /\ arrayOf(pre.detectionStore) # <<>>

\* the well-formed items of an allowed species, in the order of the batch
ValidItems(items) ==
    SelectSeq(items, LAMBDA item : WellFormed(item) /\ AllowedName(item.class_name.chars))

(* C13: one bad item does not abort a batch: a batch for a registered device
   that holds a malformed item (no class_name, or no timestamp) next to valid
   items of allowed species is answered success with the number of valid items
   as count; the valid items are stored and the device's counter is higher by
   their number. *)
C13_BadItemIsolated ==
    \A p \in Handlers :
        (/\ Answered(p) /\ BatchServed(p)
         /\ req[p].device_id \in DOMAIN pre.deviceStore
         /\ ~AllWellFormed(req[p].detections.items))
        => LET id == req[p].device_id
               v == Len(ValidItems(req[p].detections.items))
           IN  /\ resp[p].success
               /\ resp[p].count = v
               /\ GainedInFront(storedArray, arrayOf(pre.detectionStore), v, id, 1000)
               /\ deviceStore[id].detectionCount = pre.deviceStore[id].detectionCount + v

(* C14: a batch is the single-detection state machine applied to each item in
   order: after a batch of n well-formed items, a of them of allowed species,
   for a registered device, the detection store has gained the a detections,
   the device record has its counter a higher, a lastSeen taken while the batch
   was processed and, when a > 0, status online; the audit log has gained one
   entry per item and a device updates have been published, as after n single
   POSTs of the same items. *)
C14_BatchAsSingles ==
    \A p \in Handlers :
        (/\ Answered(p) /\ BatchServed(p)
         /\ req[p].device_id \in DOMAIN pre.deviceStore
         /\ AllWellFormed(req[p].detections.items))
        => LET id == req[p].device_id
               n == Len(req[p].detections.items)
               a == Len(AllowedItems(req[p].detections.items))
           IN  /\ GainedInFront(storedArray, arrayOf(pre.detectionStore), a, id, 1000)
               /\ deviceStore[id].detectionCount = pre.deviceStore[id].detectionCount + a
               /\ a > 0 => /\ deviceStore[id].lastSeen >= pre.at
                           /\ deviceStore[id].status = "online"
               /\ Len(detectionEventLog) = Min(Len(pre.detectionEventLog) + n, 1000)
               /\ \A i \in 1..Min(n, 1000) : detectionEventLog[i].deviceId = id
               /\ Len(published) = Len(pre.published) + a
               /\ a > 0 => published[Len(published)] = deviceStore[id]

-----------------------------------------------------------------------------
(* Vocabulary of the query properties *)

\* the device_id parameters of the queries: none, two devices that report, an unknown one
QueryDevices == {NoString, "cam-1", "cam-2", "cam-9"}

\* the positions of arr that a query for the device matches
MatchingPositions(arr, deviceId) ==
    { i \in 1..Len(arr) : deviceId = NoString \/ arr[i].deviceId = deviceId }

\* got holds the first n matching elements of arr (all of them when there are fewer), in the order of arr
FirstMatching(got, arr, deviceId, n) ==
    LET M == MatchingPositions(arr, deviceId)
    IN  /\ Len(got) = Min(n, Cardinality(M))
        /\ \A k \in 1..Len(got) :
             \E i \in M : Cardinality({ j \in M : j < i }) = k - 1 /\ got[k] = arr[i]

(* C15: GET /detections with an optional device_id d and a limit n >= 0
   returns min(n, m) detections, m being the number of stored detections that
   match d; they are the first matching ones of the store, which is kept
   most-recent-first, in that order: the device filter is applied before the
   cut to the limit. *)
C15_FilterThenLimit ==
    \A d \in QueryDevices, n \in 0..MaxLimit :
        FirstMatching(GETDetections(d, n), storedArray, d, n)

\* the most recent detection is another device's, and a query for one detection of cam-1 still returns one
C15_Witness ==
    /\ NoneInSync
    /\ Len(storedArray) >= 2
    /\ storedArray[1].deviceId = "cam-2"
    /\ Len(GETDetections("cam-1", 1)) = 1
    /\ GETDetections("cam-1", 1)[1].deviceId = "cam-1"

(* C16: for every limit <= 0, zero and negative, the detection list query and
   the audit-log query return an empty sequence whatever the stores hold; a
   limit larger than the stored count returns every stored entry; an unknown
   device_id returns an empty sequence. *)
C16_LimitEdges ==
    /\ \A d \in QueryDevices, n \in (0 - MaxLimit)..0 :
         GETDetections(d, n) = <<>> /\ GETLogs(d, n) = <<>>
    /\ GETDetections(NoString, Len(storedArray) + 1) = storedArray
    /\ GETLogs(NoString, Len(detectionEventLog) + 1) = detectionEventLog
    /\ \A n \in 0..MaxLimit :
         GETDetections("cam-9", n) = <<>> /\ GETLogs("cam-9", n) = <<>>

-----------------------------------------------------------------------------
(* Vocabulary of the capacity properties *)

\* an item on which the batch loop raises an exception
Throws(item) ==
    \/ item.class_name.type # "string"
    \/ AllowedName(item.class_name.chars) /\ item.timestamp.type # "number"

\* the items the batch loop gets through: those before the first one that throws
Processed(items) ==
    LET bad == { i \in 1..Len(items) : Throws(items[i]) }
    IN  IF bad = {} THEN items
        ELSE SubSeq(items, 1, (CHOOSE i \in bad : \A j \in bad : i <= j) - 1)

\* the number of detections the request of handler p has put into the store
InsertedBy(p) ==
    IF req[p].kind = "single" THEN (IF resp[p].success THEN 1 ELSE 0)
    ELSE IF BatchServed(p) THEN Len(AllowedItems(Processed(req[p].detections.items)))
    ELSE 0

(* C17: eviction is oldest-first: when a request (single or batch) has inserted
   its k accepted detections into a store that then held more than 1000, the
   store holds exactly 1000 detections: the k new ones in front, a later item of
   a batch before an earlier one, followed by the most recent ones of those it
   held before, in their order. *)
C17_OldestEvicted ==
    \A p \in Handlers :
        (Answered(p) /\ Len(arrayOf(pre.detectionStore)) + InsertedBy(p) > 1000)
        => LET k == InsertedBy(p)
               old == arrayOf(pre.detectionStore)
           IN  /\ Len(storedArray) = 1000
               /\ \A i \in 1..k : storedArray[i].deviceId = req[p].device_id
               /\ \A i \in 1..(k - 1) : storedArray[i].id > storedArray[i + 1].id
               /\ \A i \in 1..(1000 - k) : storedArray[k + i] = old[i]

\* the entries of a log are in the order of their time, the most recent first
MostRecentFirst(log) ==
    \A i \in 1..(Len(log) - 1) : log[i].timestamp >= log[i + 1].timestamp

\* a step keeps log and store apart: an entry goes in front of the log and
\* the store stays, or the store changes and the log stays
LogAndStoreApart ==
    /\ detectionEventLog' # detectionEventLog =>
         /\ detectionEventLog' # <<>>
         /\ detectionEventLog' = Prepended(Head(detectionEventLog'), detectionEventLog, 1000)
         /\ detectionStore' = detectionStore
    /\ detectionStore' # detectionStore => detectionEventLog' = detectionEventLog

(* C18: in every reachable state the audit log holds at most 1000 entries, the
   most recent first; a step that appends an audit entry puts it in front of
   the log, drops at most the oldest entry and leaves the detection store as it
   is, and a step that changes the detection store leaves the audit log as it
   is. *)
C18_AuditLogBounded ==
    /\ [](Len(detectionEventLog) <= 1000 /\ MostRecentFirst(detectionEventLog))
    /\ [][LogAndStoreApart]_vars

\* log and store are both full, and the log has dropped its oldest entry while the store holds its 1000
C18_Witness ==
    /\ NoneInSync
    /\ Len(detectionEventLog) = 1000
    /\ detectionEventLog[1000].eventId = "evt-old-2"
    /\ detectionEventLog[1].timestamp >= StartTime
    /\ Len(storedArray) = 1000

-----------------------------------------------------------------------------
(* Vocabulary of the concurrency property *)

\* every handler has served exactly one request and has answered it
ServedOnce ==
    /\ nreq = Cardinality(Handlers)
    /\ \A p \in Handlers : pc[p] = "done" /\ req[p] # NoRequest

\* the number of detections of device d that the request of handler p had accepted
AcceptedFor(p, d) ==
    IF req[p].device_id # d \/ ~resp[p].success THEN 0
    ELSE IF req[p].kind = "single" THEN 1
    ELSE Len(AllowedItems(req[p].detections.items))

RECURSIVE SumAccepted(_, _)
SumAccepted(H, d) ==
    IF H = {} THEN 0
    ELSE LET p == CHOOSE q \in H : TRUE
         IN  AcceptedFor(p, d) + SumAccepted(H \ {p}, d)

\* the number of detections of device d in the store
StoredFor(d) == Cardinality({ i \in 1..Len(storedArray) : storedArray[i].deviceId = d })

(* C19: no lost updates: when the requests of all handlers, single or batch,
   have been processed in any interleaving, every device's detection counter
   is higher than at the start by exactly the number of detections accepted
   for that device, and the store holds that many detections of the device
   (the store being below its capacity); requests for one device do not change
   the counter of another. *)
C19_NoLostUpdates ==
    ServedOnce =>
        \A d \in DOMAIN deviceStore :
            /\ deviceStore[d].detectionCount
                 = InitialDevices[d].detectionCount + SumAccepted(Handlers, d)
            /\ StoredFor(d) = SumAccepted(Handlers, d)

\* a batch and a single detection for the same device were both accepted, and
\* one of them was waiting for its body when the other began to act on the stores
C19_Witness ==
    /\ ServedOnce
    /\ \E p, q \in Handlers :
         /\ q \in met[p]
         /\ req[p].device_id = "cam-1" /\ req[q].device_id = "cam-1"
         /\ resp[p].success /\ resp[q].success
         /\ req[p].kind = "batch" /\ req[q].kind = "single"

(* C20: a failure to deliver a device update to a subscriber never reaches the
   caller of the ingestion: a single detection that has triggered a publish is
   answered 200 with success=true and its audit entry is in front of the audit
   log, also when a stream of the hub was dead at the publish. *)
C20_PublishFailureSwallowed ==
    \A p \in Handlers :
        (/\ Answered(p) /\ req[p].kind = "single"
         /\ Len(published) > Len(pre.published))
        => /\ resp[p].status = 200
           /\ resp[p].success
           /\ detectionEventLog # <<>>
           /\ detectionEventLog = Prepended(Head(detectionEventLog), pre.detectionEventLog, 1000)
           /\ Head(detectionEventLog).eventId = resp[p].event_id
           /\ Head(detectionEventLog).action = "detection_received"

\* during the request just answered the write to one stream failed, and another stream received the update
C20_Witness ==
    \E p \in Handlers :
        /\ Answered(p) /\ req[p].kind = "single" /\ resp[p].success
        /\ Len(published) > Len(pre.published)
        /\ \E s \in Sessions : streams[s].errors > pre.streams[s].errors
        /\ \E s \in Sessions : Len(streams[s].events) > Len(pre.streams[s].events)

-----------------------------------------------------------------------------
(* Vocabulary of the stream property *)

\* the step publishes the record of the device of a handler at its broadcast,
\* and every stream that is open then gains that one event, the others none
OneEventPerOpenStream ==
    \E p \in Handlers :
        /\ pc[p] = "broadcast"
        /\ published' = Append(published, deviceStore[req[p].device_id])
        /\ \A s \in Sessions :
             streams'[s].events =
                IF streams[s].state = "open"
                THEN Append(streams[s].events, deviceStore[req[p].device_id])
                ELSE streams[s].events

\* the step hands no event to any stream: a stream keeps its events, or starts empty
NoEventHandedOut ==
    \A s \in Sessions :
        \/ streams'[s].events = streams[s].events
        \/ streams[s].state = "closed" /\ streams'[s].state = "open"
             /\ streams'[s].events = <<>>

(* C21: a subscriber whose stream is open when a device update is published
   receives exactly one event for that publish, the record of that device; a
   step that publishes nothing hands out no event, so a subscriber that
   connects after a publish starts with an empty stream and never receives that
   update. *)
C21_OneEventNoReplay ==
    [][IF published' # published THEN OneEventPerOpenStream ELSE NoEventHandedOut]_vars

\* one stream has received an update, and another, opened after the last publish, has received none
C21_Witness ==
    /\ published # <<>>
    /\ \E s, t \in Sessions :
         /\ streams[s].state = "open"
         /\ streams[s].events = <<published[Len(published)]>>
         /\ streams[t].state = "open"
         /\ streams[t].events = <<>>

(* C22: a batch in which every item is of a species that is not allowed leaves
   the record of its device as it was: detection counter, lastSeen and status
   are the same after the request as before it. *)
C22_RejectedBatchLeavesDevice ==
    \A p \in Handlers :
        (/\ Answered(p) /\ BatchServed(p)
         /\ req[p].device_id \in DOMAIN pre.deviceStore
         /\ req[p].detections.items # <<>>
         /\ \A i \in 1..Len(req[p].detections.items) :
              /\ NamesAClass(req[p].detections.items[i].class_name)
              /\ ~AllowedName(req[p].detections.items[i].class_name.chars))
        => LET id == req[p].device_id IN
           /\ deviceStore[id].detectionCount = pre.deviceStore[id].detectionCount
           /\ deviceStore[id].lastSeen = pre.deviceStore[id].lastSeen
           /\ deviceStore[id].status = pre.deviceStore[id].status

-----------------------------------------------------------------------------
(* C23: in every state another request can observe, the stored status of a
   device is determined by the time since it was last seen: the status is
   "online" exactly when now - lastSeen is less than 120 seconds, whichever
   route, single or batch, refreshed lastSeen. *)
C23_StatusFollowsLastSeen ==
    NoneInSync =>
        \A d \in DOMAIN deviceStore :
            (deviceStore[d].status = "online")
                <=> (now - deviceStore[d].lastSeen < OnlineWindowMs)

-----------------------------------------------------------------------------
(* Vocabulary of the statistics properties *)

\* handler p has just answered GET /api/stats: neither the stores nor the clock
\* have moved since
StatsServed(p) == Answered(p) /\ req[p] = StatsRequest /\ pre.at = now

\* the devices last seen later than 120 seconds before now
SeenInWindow == { d \in DOMAIN deviceStore : deviceStore[d].lastSeen > now - OnlineWindowMs }

(* C24: the onlineDevices of a statistics response is the number of devices
   whose lastSeen is strictly less than 120 seconds before now: a device seen
   60 seconds ago is counted, one seen exactly 120 or 130 seconds ago is not. *)
C24_OnlineWithinWindow ==
    \A p \in Handlers :
        StatsServed(p) =>
            /\ stats.onlineDevices = Cardinality(SeenInWindow)
            /\ stats.totalDevices = Cardinality(DOMAIN deviceStore)
            /\ \A d \in DOMAIN deviceStore :
                  /\ now - deviceStore[d].lastSeen = 60 * 1000 => d \in SeenInWindow
                  /\ now - deviceStore[d].lastSeen \in {120 * 1000, 130 * 1000}
                        => d \notin SeenInWindow

\* a response that counts a device seen 60 seconds ago and leaves out one seen
\* exactly 120 seconds ago
C24_Witness ==
    /\ StatsServed(1)
    /\ stats.onlineDevices = 1
    /\ now - deviceStore["cam-1"].lastSeen = 120 * 1000
    /\ now - deviceStore["cam-3"].lastSeen = 60 * 1000

\* the places of the store whose detection is later than now - 24 h
Last24h ==
    { i \in 1..Len(storedArray) : storedArray[i].timestamp > now - 24 * HourMs }

\* how often the class name c occurs among them, and where first
Frequency(c) == Cardinality({ i \in Last24h : storedArray[i].className = c })
FirstSeen(c) ==
    CHOOSE i \in Last24h :
        /\ storedArray[i].className = c
        /\ \A j \in Last24h : storedArray[j].className = c => i <= j

RECURSIVE SumCounts(_)
SumCounts(entries) ==
    IF entries = <<>> THEN 0 ELSE Head(entries).count + SumCounts(Tail(entries))

(* C25: the classDistribution of a statistics response has one entry for each
   class name that occurs among the detections with a timestamp later than
   now - 24 h, with the number of its occurrences; the entries are in
   descending order of count and, for equal counts, in the order in which the
   class names first occur in the store; the counts add up to
   totalDetections24h. *)
C25_DistributionOfLastDay ==
    \A p \in Handlers :
        StatsServed(p) =>
            LET dist == stats.classDistribution
            IN  /\ { dist[k].className : k \in 1..Len(dist) }
                      = { storedArray[i].className : i \in Last24h }
                /\ \A k \in 1..Len(dist) : dist[k].count = Frequency(dist[k].className)
                /\ \A j, k \in 1..Len(dist) :
                      j < k =>
                        /\ dist[j].className # dist[k].className
                        /\ \/ dist[j].count > dist[k].count
                           \/ /\ dist[j].count = dist[k].count
                              /\ FirstSeen(dist[j].className) < FirstSeen(dist[k].className)
                /\ SumCounts(dist) = stats.totalDetections24h

\* a distribution whose most frequent class occurs last in the store, followed
\* by two classes of equal count in the order of the store
C25_Witness ==
    /\ StatsServed(1)
    /\ Len(stats.classDistribution) = 3
    /\ stats.classDistribution[1].count = 2
    /\ stats.classDistribution[2].count = 1
    /\ stats.classDistribution[3].count = 1
    /\ FirstSeen(stats.classDistribution[1].className) > FirstSeen(stats.classDistribution[3].className)

\* the places of the store whose detection falls into the hour at position k
\* (k = 1 is the oldest hour): [now - (25 - k) h, now - (24 - k) h)
Within(i, k) ==
    /\ storedArray[i].timestamp >= now - (25 - k) * HourMs
    /\ storedArray[i].timestamp < now - (24 - k) * HourMs

InHour(k) == { i \in 1..Len(storedArray) : Within(i, k) }

(* C26: the hourlyDetections of a statistics response always has 24 entries,
   the oldest hour first; the entry at position p, counted from 0, is the
   number of stored detections with a timestamp in
   [now - (24 - p) h, now - (23 - p) h); a detection is counted in at most one
   entry, and a detection older than 24 h or dated at or after now in none. *)
C26_HourlyBuckets ==
    \A p \in Handlers :
        StatsServed(p) =>
            LET hourly == stats.hourlyDetections
            IN  /\ Len(hourly) = 24
                /\ \A k \in 1..24 : hourly[k].count = Cardinality(InHour(k))
                /\ \A i \in 1..Len(storedArray) :
                      Cardinality({ k \in 1..24 : Within(i, k) }) <= 1
                /\ SumCounts(hourly)
                      = Cardinality({ i \in 1..Len(storedArray) :
                                        /\ storedArray[i].timestamp >= now - 24 * HourMs
                                        /\ storedArray[i].timestamp < now })

\* a response over a store with a detection exactly 24 h old (counted in the
\* oldest hour), one exactly 1 h old (counted in the latest hour), one dated now
\* and one older than 24 h (counted in none)
C26_Witness ==
    /\ StatsServed(1)
    /\ stats.hourlyDetections[1].count = 1
    /\ stats.hourlyDetections[24].count = 1
    /\ SumCounts(stats.hourlyDetections) = 2
    /\ \E i, j, k, l \in 1..Len(storedArray) :
          /\ storedArray[i].timestamp = now - 24 * HourMs
          /\ storedArray[j].timestamp = now - HourMs
          /\ storedArray[k].timestamp = now
          /\ storedArray[l].timestamp < now - 24 * HourMs

\* no detection of the store is dated at or after now
NoneFromNowOn == \A i \in 1..Len(storedArray) : storedArray[i].timestamp < now

\* the places of the store whose detection is exactly 24 hours old
ExactlyOneDayOld ==
    { i \in 1..Len(storedArray) : storedArray[i].timestamp = now - 24 * HourMs }

(* C30 as claimed: when no stored detection is dated at or after now, the 24
   hourly counts of a statistics response add up to its totalDetections24h,
   and totalDetections24h is at most totalDetectionsWeek. *)
C30_HourlySumIsDayTotal ==
    \A p \in Handlers :
        (StatsServed(p) /\ NoneFromNowOn) =>
            /\ SumCounts(stats.hourlyDetections) = stats.totalDetections24h
            /\ stats.totalDetections24h <= stats.totalDetectionsWeek

(* C30 as amended: when no stored detection is dated at or after now, the 24
   hourly counts of a statistics response add up to its totalDetections24h
   plus the number of detections that are exactly 24 hours old (the oldest
   hour includes that instant, the 24-hour total does not), and
   totalDetections24h is at most totalDetectionsWeek. *)
C30_HourlySumIsDayTotalAndEdge ==
    \A p \in Handlers :
        (StatsServed(p) /\ NoneFromNowOn) =>
            /\ SumCounts(stats.hourlyDetections)
                  = stats.totalDetections24h + Cardinality(ExactlyOneDayOld)
            /\ stats.totalDetections24h <= stats.totalDetectionsWeek

\* a response over a store without detections from now on that holds one
\* exactly 24 hours old, one younger and one older than a day but not a week
C30_Witness ==
    /\ StatsServed(1)
    /\ NoneFromNowOn
    /\ ExactlyOneDayOld # {}
    /\ stats.totalDetections24h > 0
    /\ stats.totalDetectionsWeek > stats.totalDetections24h + Cardinality(ExactlyOneDayOld)

-----------------------------------------------------------------------------
(* C27: an authorized single detection of an allowed species, with a valid
   timestamp, from a device that has no record is acknowledged and stored in
   front of the list with deviceName equal to the device_id as sent, and the
   audit log gains a detection_received entry for it; no device record is
   created or changed and no device update is published. *)
C27_UnknownDeviceAccepted ==
    \A p \in Handlers :
        (/\ Answered(p)
         /\ SingleServed(p)
         /\ req[p].device_id # NoString
         /\ req[p].device_id \notin DOMAIN pre.deviceStore
         /\ NamesAClass(req[p].class_name)
         /\ AllowedName(req[p].class_name.chars)
         /\ req[p].timestamp.type = "number")
        => /\ resp[p].status = 200
           /\ resp[p].success
           /\ Len(storedArray) = Min(Len(arrayOf(pre.detectionStore)) + 1, MaxDetections)
           /\ Head(storedArray).deviceId = req[p].device_id
           /\ Head(storedArray).deviceName = req[p].device_id
           /\ Head(storedArray).eventId = resp[p].event_id
           /\ Len(detectionEventLog) = Min(Len(pre.detectionEventLog) + 1, MaxLogEvents)
           /\ Head(detectionEventLog).deviceId = req[p].device_id
           /\ Head(detectionEventLog).eventId = resp[p].event_id
           /\ Head(detectionEventLog).action = "detection_received"
           /\ deviceStore = pre.deviceStore
           /\ published = pre.published
           /\ streams = pre.streams

\* the device cam-2, which has no record, has had two tigers accepted
C27_Witness ==
    \E p \in Handlers :
        /\ Answered(p) /\ SingleServed(p) /\ resp[p].success
        /\ req[p].device_id = "cam-2"
        /\ "cam-2" \notin DOMAIN deviceStore
        /\ Len(storedArray) = 2
        /\ \A i \in 1..2 : storedArray[i].deviceName = "cam-2"

-----------------------------------------------------------------------------
(* C29: in every state another request can observe, no two detections of the
   store that carry an event id carry the same one, whether the id was sent
   by the caller or generated by the server (the detections of a batch carry
   none and are left aside). *)
C29_EventIdIdentifies ==
    NoneInSync =>
        \A i, j \in 1..Len(storedArray) :
            (i < j /\ storedArray[i].eventId # NoString)
                => storedArray[i].eventId # storedArray[j].eventId

-----------------------------------------------------------------------------
(* Vocabulary of the dashboard properties *)

\* this step is the completion of a periodic poll, and it replaces the device
\* list on the screen
PollReplaces ==
    /\ dash.mounted
    /\ dash'.devices # dash.devices
    /\ \E k \in 1..Len(dash.pending) :
          /\ dash.pending[k].by = "interval"
          /\ dash'.pending = without(dash.pending, k)

\* the stream is connected and has delivered at least one device
StreamHasDevices ==
    /\ dash.mounted
    /\ dash.current.isStreamConnected
    /\ Len(dash.current.streamDevices.items) > 0

(* C28: the completion of a periodic poll replaces the device list on the
   screen only when, at that moment, the stream is disconnected or has
   delivered no device; while the stream is connected and has delivered a
   device, no periodic poll replaces the list, however stream events and poll
   completions interleave. *)
C28_PollKeepsStreamList == [][PollReplaces => ~StreamHasDevices]_vars

=============================================================================
